---- MODULE Spec2Model ----
(***************************************************************************)
(* A model of NavMesh (src/src/graph/navmesh/NavMesh.js): the build        *)
(* pipeline fromPolygons (twin linking, _buildRegions, _buildNodeIndices,  *)
(* _buildGraph) and the queries getClosestNodeIndexInRegion, findPath and  *)
(* clampMovement.                                                          *)
(*                                                                         *)
(* Half-edges and polygons are objects addressed by integer handles        *)
(* (1..NE, 1..NP); 0 is JavaScript's null.  A position is a pair <<x, z>>  *)
(* of integers (the meshes are planar, y = 0), compared by value as        *)
(* Vector3.equals does.  Positions that the code computes by division      *)
(* (clampMovement's slid position, a centroid) are kept exact as           *)
(* homogeneous triples <<X, Z, W>> standing for (X/W, Z/W), W > 0.         *)
(***************************************************************************)
EXTENDS Integers, Sequences, FiniteSets, TLC

VARIABLES
    mesh,            \* which input polygon collection is being built
    vertex,          \* HalfEdge.vertex   : edge -> position
    next,            \* HalfEdge.next     : edge -> edge
    prev,            \* HalfEdge.prev     : edge -> edge
    twin,            \* HalfEdge.twin     : edge -> edge or 0 (null)
    polygon,         \* HalfEdge.polygon  : edge -> polygon
    nodeIndex,       \* HalfEdge.nodeIndex: edge -> integer
    edge,            \* Polygon.edge      : polygon -> edge
    centroid,        \* Polygon.centroid  : polygon -> <<X, Z, W>>
    regions,         \* NavMesh.regions, a Set in insertion order
    sortedEdgeList,  \* the worklist handed to _buildRegions
    entryIdx,        \* position of _buildRegions' for-of loop in the worklist
    lastStep,        \* what the last _buildRegions iteration did
    graphNodes,      \* NavMesh.graph nodes: set of [index, position]
    graphEdges,      \* NavMesh.graph edges: set of [from, to, cost2]
    pc,              \* position of fromPolygons
    cn,              \* last getClosestNodeIndexInRegion call and its result
    fp,              \* last findPath call and its result
    cm               \* last clampMovement call and its result

vars == << mesh, vertex, next, prev, twin, polygon, nodeIndex, edge, centroid,
           regions, sortedEdgeList, entryIdx, lastStep, graphNodes, graphEdges,
           pc, cn, fp, cm >>

(***************************************************************************)
(* Bounds of the model.                                                    *)
(***************************************************************************)
\* query points are the integer points of the square 0..GridMax x 0..GridMax
GridMax == 3

(***************************************************************************)
(* Sentinels.                                                              *)
(***************************************************************************)
\* HalfEdge's initial nodeIndex, and _buildNodeIndices' "not found" value
NoIndex == -1
\* JavaScript null as an index result (closesNodeIndex = null)
NullIndex == -2

(***************************************************************************)
(* Sequence helpers.                                                       *)
(***************************************************************************)
SeqRange(s) == { s[i] : i \in 1..Len(s) }

RECURSIVE SumLen(_, _)
SumLen(ss, k) == IF k = 0 THEN 0 ELSE Len(ss[k]) + SumLen(ss, k - 1)

\* Array.prototype.reverse
Reverse(s) == [ i \in 1..Len(s) |-> s[Len(s) + 1 - i] ]

\* Set.prototype.delete on an insertion-ordered Set
RECURSIVE SetDelete(_, _)
SetDelete(s, x) ==
    IF s = << >> THEN << >>
    ELSE IF Head(s) = x THEN Tail(s)
    ELSE << Head(s) >> \o SetDelete(Tail(s), x)

(***************************************************************************)
(* Vector and polygon geometry.                                            *)
(***************************************************************************)
\* Vector3.squaredDistanceTo
SquaredDistance(a, b) ==
    (a[1] - b[1]) * (a[1] - b[1]) + (a[2] - b[2]) * (a[2] - b[2])

\* Vector3.dot of two differences
Dot(a, b) == a[1] * b[1] + a[2] * b[2]

Sub(a, b) == << a[1] - b[1], a[2] - b[2] >>

\* MathUtils.area on the x/z plane
Area(a, b, c) ==
    (c[1] - a[1]) * (b[2] - a[2]) - (b[1] - a[1]) * (c[2] - a[2])

\* leftOn: c is left of, or on, the line a -> b
LeftOn(a, b, c) == Area(a, b, c) >= 0

\* leftOn for a point c = <<X, Z, W>> (W > 0): the sign of W * area
LeftOnH(a, b, c) ==
    (c[1] - a[1] * c[3]) * (b[2] - a[2]) - (b[1] - a[1]) * (c[2] - a[2] * c[3]) >= 0

\* an integer position as a homogeneous triple
Hom(p) == << p[1], p[2], 1 >>

(***************************************************************************)
(* The input polygon collections.  A polygon is given by its contour, as   *)
(* Polygon.fromContour takes it; contours are wound so that convex() holds *)
(* for a convex polygon.                                                   *)
(***************************************************************************)
Sq(x, z) == << <<x, z>>, <<x, z + 1>>, <<x + 1, z + 1>>, <<x + 1, z>> >>

\* a 1 x 2 rectangle with an extra vertex in the middle of its left side
TallL(x, z) ==
    << <<x, z>>, <<x, z + 1>>, <<x, z + 2>>, <<x + 1, z + 2>>, <<x + 1, z>> >>

\* a 1 x 2 rectangle with an extra vertex in the middle of its right side
TallR(x, z) ==
    << <<x, z>>, <<x, z + 2>>, <<x + 1, z + 2>>, <<x + 1, z + 1>>, <<x + 1, z>> >>

\* a 2 x 1 rectangle with an extra vertex in the middle of its bottom side
WideB(x, z) ==
    << <<x, z>>, <<x, z + 1>>, <<x + 2, z + 1>>, <<x + 2, z>>, <<x + 1, z>> >>

\* TallL with its contour started one vertex later
TallLRot(x, z) ==
    << <<x, z + 1>>, <<x, z + 2>>, <<x + 1, z + 2>>, <<x + 1, z>>, <<x, z>> >>

\* a convex quadrilateral that sits on the segment (0, 2) - (1, 2) and leans
\* to the right
Lean == << <<0, 2>>, <<0, 3>>, <<2, 3>>, <<1, 2>> >>

\* a non-convex hexagon shaped like an L
Hexagon == << <<0, 0>>, <<0, 2>>, <<1, 2>>, <<1, 1>>, <<2, 1>>, <<2, 0>> >>

Meshes ==
    << \* 1: two unit squares side by side
       << Sq(0, 0), Sq(1, 0) >>,
       \* 2, 3, 4: three unit squares arranged as an L, in three input orders
       << Sq(0, 0), Sq(1, 0), Sq(0, 1) >>,
       << Sq(0, 1), Sq(0, 0), Sq(1, 0) >>,
       << Sq(1, 0), Sq(0, 1), Sq(0, 0) >>,
       \* 5, 6: a 2 x 2 grid of unit squares, in two input orders
       << Sq(0, 0), Sq(1, 0), Sq(0, 1), Sq(1, 1) >>,
       << Sq(0, 0), Sq(1, 0), Sq(1, 1), Sq(0, 1) >>,
       \* 7: two rectangles sharing two collinear edges
       << TallR(0, 0), TallL(1, 0) >>,
       \* 8: a single non-convex polygon
       << Hexagon >>,
       \* 9: a non-convex polygon with a square attached to it
       << Hexagon, Sq(2, 0) >>,
       \* 10: a square and a wide rectangle that share an edge, and a tall
       \*     rectangle that touches both at one corner only
       << << <<0, 0>>, <<0, 2>>, <<1, 2>>, <<1, 0>> >>, Sq(1, 1), WideB(1, 2) >>,
       \* 11: three polygons around the vertex (2, 1), no two of which merge
       << Sq(1, 0), TallL(2, 0), WideB(0, 1) >>,
       \* 12: a square and two coincident rectangles on its right side
       << Sq(0, 0), TallL(1, 0), TallL(1, 0) >>,
       \* 13: a 2 x 2 grid with a fifth square attached on the right
       << Sq(0, 0), Sq(1, 0), Sq(0, 1), Sq(1, 1), Sq(2, 0) >>,
       \* 14: the two rectangles of 7, the second one's contour started at
       \*     another vertex
       << TallLRot(1, 0), TallR(0, 0) >>,
       \* 15: the same with a quadrilateral on top that merges with neither
       << TallLRot(1, 0), TallR(0, 0), Lean >> >>

NumMeshes == Len(Meshes)

Contours(m) == Meshes[m]
NP(m) == Len(Contours(m))
NE(m) == SumLen(Contours(m), NP(m))
Edges(m) == 1..NE(m)
Polys(m) == 1..NP(m)

\* the handle of the first half-edge of polygon p
FirstEdge(m, p) == SumLen(Contours(m), p - 1) + 1
\* the polygon whose contour half-edge e belongs to
PolyOf(m, e) == CHOOSE p \in Polys(m) :
                    FirstEdge(m, p) <= e /\ e < FirstEdge(m, p) + Len(Contours(m)[p])

\* the half-edge structure Polygon.fromContour builds for the contours
InitVertex(m) == [ e \in Edges(m) |->
                     Contours(m)[PolyOf(m, e)][e - FirstEdge(m, PolyOf(m, e)) + 1] ]
InitNext(m) == [ e \in Edges(m) |->
                   LET p == PolyOf(m, e)
                   IN  IF e + 1 < FirstEdge(m, p) + Len(Contours(m)[p])
                       THEN e + 1 ELSE FirstEdge(m, p) ]
InitPrev(m) == [ e \in Edges(m) |->
                   LET p == PolyOf(m, e)
                   IN  IF e > FirstEdge(m, p)
                       THEN e - 1 ELSE FirstEdge(m, p) + Len(Contours(m)[p]) - 1 ]

(***************************************************************************)
(* HalfEdge and Polygon methods.                                           *)
(***************************************************************************)
\* HalfEdge.from()
From(vx, e) == vx[e]
\* HalfEdge.to()
To(vx, nx, e) == vx[nx[e]]
\* HalfEdge.squaredLength()
SquaredLength(vx, nx, e) == SquaredDistance(From(vx, e), To(vx, nx, e))

\* The half-edges a do { ... edge = edge.next } while ( edge !== start ) loop
\* visits, in order.  A loop that has made more steps than there are
\* half-edges without coming back to start never comes back: the walk is then
\* cut and Hangs holds.
RECURSIVE Walk(_, _, _, _)
Walk(nx, start, e, fuel) ==
    IF fuel = 0 THEN << >>
    ELSE IF nx[e] = start THEN << e >>
    ELSE << e >> \o Walk(nx, start, nx[e], fuel - 1)

Cycle(nx, start) == Walk(nx, start, start, Cardinality(DOMAIN nx) + 1)
Hangs(nx, start) == Len(Cycle(nx, start)) > Cardinality(DOMAIN nx)

\* Polygon.convex()
Convex(vx, nx, start) ==
    \A e \in SeqRange(Cycle(nx, start)) :
        LeftOn(From(vx, e), To(vx, nx, e), To(vx, nx, nx[e]))

\* Polygon.contains( point ) for a point <<X, Z, W>> of the polygons' plane
Contains(vx, nx, start, point) ==
    \A e \in SeqRange(Cycle(nx, start)) :
        LeftOnH(From(vx, e), To(vx, nx, e), point)

\* Polygon.computeCentroid(): the mean of the vertices, as <<sum x, sum z, n>>
RECURSIVE SumVertices(_, _)
SumVertices(vx, es) ==
    IF es = << >> THEN << 0, 0 >>
    ELSE LET r == SumVertices(vx, Tail(es))
         IN  << vx[Head(es)][1] + r[1], vx[Head(es)][2] + r[2] >>

ComputeCentroid(vx, nx, start) ==
    LET c == Cycle(nx, start)
        s == SumVertices(vx, c)
    IN  << s[1], s[2], Len(c) >>

(***************************************************************************)
(* fromPolygons, lines 29-92: collect the half-edges, fill the regions     *)
(* set, link the twins and sort the worklist.                              *)
(***************************************************************************)
\* lines 40-56: initialEdgeList, polygon by polygon, each from polygon.edge
RECURSIVE InitialEdgeList(_, _, _)
InitialEdgeList(nx, ed, ps) ==
    IF ps = << >> THEN << >>
    ELSE Cycle(nx, ed[Head(ps)]) \o InitialEdgeList(nx, ed, Tail(ps))

\* a test that compares one end only
IsReverseOneEnd(vx, nx, edge0, edge1) == From(vx, edge0) = To(vx, nx, edge1)

\* line 66: edge1 is the reverse of edge0, by value
IsReverse(vx, nx, edge0, edge1) ==
    /\ From(vx, edge0) = To(vx, nx, edge1)
    /\ To(vx, nx, edge0) = From(vx, edge1)

\* lines 64-88: the first edge1 of the list that is the reverse of edge0, or 0
FirstReverse(vx, nx, list, edge0) ==
    LET hits == { j \in 1..Len(list) : IsReverse(vx, nx, edge0, list[j]) }
    IN  IF hits = {} THEN 0
        ELSE list[CHOOSE j \in hits : \A k \in hits : j <= k]

\* lines 70-71: edge0.twin = edge1; edge1.twin = edge0
LinkTwins(tw, edge0, edge1) ==
    [ [ tw EXCEPT ![edge0] = edge1 ] EXCEPT ![edge1] = edge0 ]

\* lines 60-90: the outer loop, from position i of the list on; the result is
\* the twin references and the unsorted worklist
RECURSIVE TwinLoop(_, _, _, _, _, _)
TwinLoop(vx, nx, list, i, tw, work) ==
    IF i > Len(list) THEN [ twin |-> tw, list |-> work ]
    ELSE LET edge0 == list[i]
             edge1 == FirstReverse(vx, nx, list, edge0)
         IN  IF tw[edge0] # 0 \/ edge1 = 0
             THEN TwinLoop(vx, nx, list, i + 1, tw, work)
             ELSE TwinLoop(vx, nx, list, i + 1, LinkTwins(tw, edge0, edge1),
                           Append(work, [ cost |-> SquaredLength(vx, nx, edge0),
                                          edge |-> edge0 ]))

\* lines 674-678: the comparator of the sort
Descending(a, b) ==
    IF a.cost < b.cost THEN 1 ELSE IF a.cost > b.cost THEN -1 ELSE 0

\* Array.prototype.sort with a comparator (stable): insert x behind every
\* entry the comparator does not put behind x
RECURSIVE SortInsert(_, _)
SortInsert(s, x) ==
    IF s = << >> THEN << x >>
    ELSE IF Descending(Head(s), x) > 0 THEN << x >> \o s
    ELSE << Head(s) >> \o SortInsert(Tail(s), x)

RECURSIVE SortDescending(_, _)
SortDescending(s, k) ==
    IF k = 0 THEN << >> ELSE SortInsert(SortDescending(s, k - 1), s[k])

(***************************************************************************)
(* The state after construction: an empty NavMesh, and the input polygons  *)
(* wired as Polygon.fromContour wires them, every twin null.               *)
(***************************************************************************)
NoStep == [ outcome |-> "none", candidate |-> 0, survivor |-> 0, removed |-> 0 ]
NoCn == [ op |-> "none", point |-> << 0, 0 >>, region |-> 0,
          target |-> << 0, 0 >>, hasTarget |-> FALSE, result |-> NullIndex ]
NoFp == [ op |-> "none", from |-> << 0, 0 >>, to |-> << 0, 0 >>,
          fromRegion |-> 0, toRegion |-> 0, found |-> FALSE,
          shortestPath |-> << >>, path |-> << >> ]
NoCm == [ op |-> "none", currentRegion |-> 0, startPosition |-> << 0, 0 >>,
          endPosition |-> << 0, 0 >>, branch |-> "none", t |-> << 0, 1 >>,
          newPosition |-> << 0, 0, 1 >>, clampPosition |-> << 0, 0, 1 >>,
          returned |-> 0 ]

Init ==
    /\ mesh \in 1..NumMeshes
    /\ vertex = InitVertex(mesh)
    /\ next = InitNext(mesh)
    /\ prev = InitPrev(mesh)
    /\ twin = [ e \in Edges(mesh) |-> 0 ]
    /\ polygon = [ e \in Edges(mesh) |-> PolyOf(mesh, e) ]
    /\ nodeIndex = [ e \in Edges(mesh) |-> NoIndex ]
    /\ edge = [ p \in Polys(mesh) |-> FirstEdge(mesh, p) ]
    /\ centroid = [ p \in Polys(mesh) |-> << 0, 0, 1 >> ]
    /\ regions = << >>
    /\ sortedEdgeList = << >>
    /\ entryIdx = 1
    /\ lastStep = NoStep
    /\ graphNodes = {}
    /\ graphEdges = {}
    /\ pc = "new"
    /\ cn = NoCn
    /\ fp = NoFp
    /\ cm = NoCm

\* fromPolygons up to the call of _buildRegions (lines 29-92)
LinkTwinsAndSort ==
    /\ pc = "new"
    /\ LET ps == [ i \in 1..NP(mesh) |-> i ]
           list == InitialEdgeList(next, edge, ps)
           r == TwinLoop(vertex, next, list, 1, twin, << >>)
       IN  /\ regions' = ps
           /\ twin' = r.twin
           /\ sortedEdgeList' = SortDescending(r.list, Len(r.list))
    /\ graphNodes' = {}
    /\ graphEdges' = {}
    /\ entryIdx' = 1
    /\ pc' = "regions"
    /\ UNCHANGED << mesh, vertex, next, prev, polygon, nodeIndex, edge, centroid,
                    lastStep, cn, fp, cm >>

(***************************************************************************)
(* _buildRegions, lines 463-538: one action per iteration of the loop over *)
(* the worklist, and one for the centroids.                                *)
(***************************************************************************)
\* lines 489-490 and 491-492: the splice, its four writes in order
SpliceNext(nx, pv, tw, candidate) ==
    LET n1 == [ nx EXCEPT ![pv[candidate]] = nx[tw[candidate]] ]
    IN  [ n1 EXCEPT ![pv[tw[candidate]]] = n1[candidate] ]

SplicePrev(nx, pv, tw, candidate) ==
    LET n1 == [ nx EXCEPT ![pv[candidate]] = nx[tw[candidate]] ]
        p1 == [ pv EXCEPT ![n1[candidate]] = pv[tw[candidate]] ]
        n2 == [ n1 EXCEPT ![p1[tw[candidate]]] = n1[candidate] ]
    IN  [ p1 EXCEPT ![n2[tw[candidate]]] = p1[candidate] ]

\* a restore that forgets the twin side
RestoreNextOneSided(nx, tw, candidate, cache) ==
    [ nx EXCEPT ![cache.prev] = candidate ]

\* lines 519 and 521: cache.prev.next = candidate; cache.prevTwin.next = twin
RestoreNext(nx, tw, candidate, cache) ==
    [ [ nx EXCEPT ![cache.prev] = candidate ] EXCEPT ![cache.prevTwin] = tw[candidate] ]

\* lines 520 and 522: cache.next.prev = candidate; cache.nextTwin.prev = twin
RestorePrev(pv, tw, candidate, cache) ==
    [ [ pv EXCEPT ![cache.next] = candidate ] EXCEPT ![cache.nextTwin] = tw[candidate] ]

\* lines 501-509: edge.polygon = polygon for every edge of the cycle
Repoint(pg, cyc, p) ==
    [ e \in DOMAIN pg |-> IF e \in SeqRange(cyc) THEN p ELSE pg[e] ]

\* line 513: regions.delete( entry.edge.twin.polygon )
CommitRegions(rs, pg, tw, candidate) == SetDelete(rs, pg[tw[candidate]])

\* a test that keeps every merge
MergeKeptAlways(vx, nx, start) == TRUE

\* a test that keeps no merge
MergeKeptNever(vx, nx, start) == FALSE

\* line 497: polygon.convex() === true
MergeKept(vx, nx, start) == Convex(vx, nx, start)

BuildRegionsStep ==
    /\ pc = "regions"
    /\ entryIdx <= Len(sortedEdgeList)
    /\ LET candidate == sortedEdgeList[entryIdx].edge
           cache == [ prev |-> prev[candidate], next |-> next[candidate],
                      prevTwin |-> prev[twin[candidate]],
                      nextTwin |-> next[twin[candidate]] ]
           nx == SpliceNext(next, prev, twin, candidate)
           pv == SplicePrev(next, prev, twin, candidate)
           p == polygon[candidate]
           start == pv[candidate]
           cyc == Cycle(nx, start)
       IN  IF Hangs(nx, start)
           THEN \* polygon.convex() never returns
                /\ next' = nx
                /\ prev' = pv
                /\ edge' = [ edge EXCEPT ![p] = start ]
                /\ pc' = "hang"
                /\ lastStep' = [ outcome |-> "hang", candidate |-> candidate,
                                 survivor |-> p, removed |-> 0 ]
                /\ UNCHANGED << polygon, regions, entryIdx >>
           ELSE IF MergeKept(vertex, nx, start)
           THEN /\ next' = nx
                /\ prev' = pv
                /\ edge' = [ edge EXCEPT ![p] = start ]
                /\ polygon' = Repoint(polygon, cyc, p)
                /\ regions' = CommitRegions(regions, Repoint(polygon, cyc, p),
                                            twin, candidate)
                /\ lastStep' = [ outcome |-> "commit", candidate |-> candidate,
                                 survivor |-> p,
                                 removed |-> Repoint(polygon, cyc, p)[twin[candidate]] ]
                /\ entryIdx' = entryIdx + 1
                /\ pc' = pc
           ELSE /\ next' = RestoreNext(nx, twin, candidate, cache)
                /\ prev' = RestorePrev(pv, twin, candidate, cache)
                /\ edge' = [ edge EXCEPT ![p] = candidate ]
                /\ lastStep' = [ outcome |-> "rollback", candidate |-> candidate,
                                 survivor |-> p, removed |-> 0 ]
                /\ entryIdx' = entryIdx + 1
                /\ UNCHANGED << polygon, regions, pc >>
    /\ UNCHANGED << mesh, vertex, twin, nodeIndex, centroid, sortedEdgeList,
                    graphNodes, graphEdges, cn, fp, cm >>

\* lines 530-536: region.computeCentroid() for every region
ComputeCentroids ==
    /\ pc = "regions"
    /\ entryIdx > Len(sortedEdgeList)
    /\ IF \E r \in SeqRange(regions) : Hangs(next, edge[r])
       THEN /\ pc' = "hang"
            /\ UNCHANGED centroid
       ELSE /\ centroid' = [ p \in DOMAIN centroid |->
                               IF p \in SeqRange(regions)
                               THEN ComputeCentroid(vertex, next, edge[p])
                               ELSE centroid[p] ]
            /\ pc' = "indices"
    /\ UNCHANGED << mesh, vertex, next, prev, twin, polygon, nodeIndex, edge,
                    regions, sortedEdgeList, entryIdx, lastStep, graphNodes,
                    graphEdges, cn, fp, cm >>

(***************************************************************************)
(* _buildNodeIndices, lines 540-597.                                       *)
(***************************************************************************)
\* the half-edges the loops over the regions and their cycles visit, in order
RECURSIVE Visits(_, _, _)
Visits(nx, ed, rs) ==
    IF rs = << >> THEN << >>
    ELSE Cycle(nx, ed[Head(rs)]) \o Visits(nx, ed, Tail(rs))

\* lines 562-573: the first index of indicesMap whose position equals the
\* given one, or -1; index i is held at place i + 1 of the map
FindIndex(indicesMap, position) ==
    LET hits == { i \in 1..Len(indicesMap) : indicesMap[i] = position }
    IN  IF hits = {} THEN NoIndex
        ELSE (CHOOSE i \in hits : \A k \in hits : i <= k) - 1

\* an assignment that gives the index to the edge only
AssignIndexEdgeOnly(ni, nx, tw, e, index) == [ ni EXCEPT ![e] = index ]

\* lines 586-587: edge.nodeIndex = nodeIndex; edge.twin.next.nodeIndex = nodeIndex
AssignIndex(ni, nx, tw, e, index) ==
    [ [ ni EXCEPT ![e] = index ] EXCEPT ![nx[tw[e]]] = index ]

\* lines 547-595, from place i of the visit order on
RECURSIVE NodeIndexLoop(_, _, _, _, _, _, _)
NodeIndexLoop(vx, nx, tw, visits, i, ni, indicesMap) ==
    IF i > Len(visits) THEN ni
    ELSE LET e == visits[i]
             found == FindIndex(indicesMap, From(vx, e))
         IN  IF tw[e] = 0
             THEN NodeIndexLoop(vx, nx, tw, visits, i + 1, ni, indicesMap)
             ELSE IF found # NoIndex
             THEN NodeIndexLoop(vx, nx, tw, visits, i + 1,
                                AssignIndex(ni, nx, tw, e, found), indicesMap)
             ELSE NodeIndexLoop(vx, nx, tw, visits, i + 1,
                                AssignIndex(ni, nx, tw, e, Len(indicesMap)),
                                Append(indicesMap, From(vx, e)))

BuildNodeIndices ==
    /\ pc = "indices"
    /\ nodeIndex' = NodeIndexLoop(vertex, next, twin, Visits(next, edge, regions),
                                  1, nodeIndex, << >>)
    /\ pc' = "graph"
    /\ UNCHANGED << mesh, vertex, next, prev, twin, polygon, edge, centroid,
                    regions, sortedEdgeList, entryIdx, lastStep, graphNodes,
                    graphEdges, cn, fp, cm >>

(***************************************************************************)
(* Graph (digraph = true): what _buildGraph and the queries use of it.     *)
(***************************************************************************)
HasNode(nodes, index) == \E n \in nodes : n.index = index
GetNode(nodes, index) == CHOOSE n \in nodes : n.index = index
HasEdge(nodes, edges, from, to) ==
    /\ HasNode(nodes, from)
    /\ HasNode(nodes, to)
    /\ \E g \in edges : g.from = from /\ g.to = to

(***************************************************************************)
(* _buildGraph, lines 599-668.  A navigation edge's cost is the Euclidean  *)
(* distance of its two node positions; the model keeps its square, cost2.  *)
(***************************************************************************)
\* lines 615-633 for one region: the array nodeIndices
RECURSIVE NodeIndices(_, _, _)
NodeIndices(tw, ni, cyc) ==
    IF cyc = << >> THEN << >>
    ELSE IF tw[Head(cyc)] # 0
    THEN << ni[Head(cyc)], ni[tw[Head(cyc)]] >> \o NodeIndices(tw, ni, Tail(cyc))
    ELSE NodeIndices(tw, ni, Tail(cyc))

\* lines 608-635: nodeIndicesPerRegion, in the regions' order
NodeIndicesPerRegion(nx, tw, ni, ed, rs) ==
    [ k \in 1..Len(rs) |-> NodeIndices(tw, ni, Cycle(nx, ed[rs[k]])) ]

\* lines 623-627 over all visited edges: the nodes added, first come first kept
RECURSIVE AddNodes(_, _, _, _, _)
AddNodes(vx, tw, ni, visits, nodes) ==
    IF visits = << >> THEN nodes
    ELSE LET e == Head(visits)
         IN  IF tw[e] # 0 /\ ~HasNode(nodes, ni[e])
             THEN AddNodes(vx, tw, ni, Tail(visits),
                           nodes \cup { [ index |-> ni[e], position |-> From(vx, e) ] })
             ELSE AddNodes(vx, tw, ni, Tail(visits), nodes)

\* the pairs (from, to) the two inner loops of lines 641-662 go through
PairsOf(indices) ==
    [ k \in 1..(Len(indices) * Len(indices)) |->
        << indices[((k - 1) \div Len(indices)) + 1],
           indices[((k - 1) % Len(indices)) + 1] >> ]

RECURSIVE AllPairs(_)
AllPairs(perRegion) ==
    IF perRegion = << >> THEN << >>
    ELSE PairsOf(Head(perRegion)) \o AllPairs(Tail(perRegion))

\* a navigation edge whose cost is taken from the node to itself
NavEdgeZeroCost(nodes, from, to) == [ from |-> from, to |-> to, cost2 |-> 0 ]

\* lines 649-654: new NavEdge( from, to, cost )
NavEdge(nodes, from, to) ==
    [ from |-> from, to |-> to,
      cost2 |-> SquaredDistance(GetNode(nodes, from).position,
                                GetNode(nodes, to).position) ]

\* lines 639-664 over the pairs; graph.getNode of an absent index yields
\* undefined, whose .position throws: the loop stops there
RECURSIVE AddEdges(_, _, _)
AddEdges(nodes, pairs, edges) ==
    IF pairs = << >> THEN [ edges |-> edges, threw |-> FALSE ]
    ELSE LET from == Head(pairs)[1]
             to == Head(pairs)[2]
         IN  IF from = to \/ HasEdge(nodes, edges, from, to)
             THEN AddEdges(nodes, Tail(pairs), edges)
             ELSE IF ~HasNode(nodes, from) \/ ~HasNode(nodes, to)
             THEN [ edges |-> edges, threw |-> TRUE ]
             ELSE AddEdges(nodes, Tail(pairs), edges \cup { NavEdge(nodes, from, to) })

BuildGraph ==
    /\ pc = "graph"
    /\ LET nodes == AddNodes(vertex, twin, nodeIndex, Visits(next, edge, regions),
                             graphNodes)
           perRegion == NodeIndicesPerRegion(next, twin, nodeIndex, edge, regions)
           r == AddEdges(nodes, AllPairs(perRegion), graphEdges)
       IN  /\ graphNodes' = nodes
           /\ graphEdges' = r.edges
           /\ pc' = IF r.threw THEN "error" ELSE "done"
    /\ UNCHANGED << mesh, vertex, next, prev, twin, polygon, nodeIndex, edge,
                    centroid, regions, sortedEdgeList, entryIdx, lastStep,
                    cn, fp, cm >>

(***************************************************************************)
(* The queries, lines 147-226.                                             *)
(***************************************************************************)
\* the points the queries are asked about
Grid == (0..GridMax) \X (0..GridMax)

\* a < b for two fractions <<num, den>> with positive denominators
FracLess(a, b) == a[1] * b[2] < b[1] * a[2]

\* lines 214-224 from region k of the set on: the first region that contains
\* the point, or 0 (null)
RECURSIVE RegionForPointFrom(_, _, _, _, _)
RegionForPointFrom(vx, nx, ed, rs, point) ==
    IF rs = << >> THEN 0
    ELSE IF Contains(vx, nx, ed[Head(rs)], point) THEN Head(rs)
    ELSE RegionForPointFrom(vx, nx, ed, Tail(rs), point)

\* getRegionForPoint( point ), point = <<X, Z, W>>
GetRegionForPoint(point) == RegionForPointFrom(vertex, next, edge, regions, point)

\* squaredDistanceTo from an integer point to a centroid <<X, Z, W>>, as a
\* fraction
CentroidDistance(point, c) ==
    << (point[1] * c[3] - c[1]) * (point[1] * c[3] - c[1])
       + (point[2] * c[3] - c[2]) * (point[2] * c[3] - c[2]), c[3] * c[3] >>

\* lines 192-204: best is the closest region so far (0: none, Infinity)
RECURSIVE ClosestRegionFrom(_, _, _, _)
ClosestRegionFrom(cs, rs, point, best) ==
    IF rs = << >> THEN best
    ELSE IF best = 0
            \/ FracLess(CentroidDistance(point, cs[Head(rs)]),
                        CentroidDistance(point, cs[best]))
    THEN ClosestRegionFrom(cs, Tail(rs), point, Head(rs))
    ELSE ClosestRegionFrom(cs, Tail(rs), point, best)

\* getClosestRegion( point )
GetClosestRegion(point) == ClosestRegionFrom(centroid, regions, point, 0)

\* a test that looks at the edge's own twin only
EligibleOwnTwin(tw, pv, e) == tw[e] # 0

\* line 156: edge.twin || edge.prev.twin
Eligible(tw, pv, e) == tw[e] # 0 \/ tw[pv[e]] # 0

\* lines 158-166: the score of an edge
Score(vx, e, point, target, hasTarget) ==
    SquaredDistance(point, From(vx, e))
    + (IF hasTarget THEN SquaredDistance(target, From(vx, e)) ELSE 0)

\* line 172: edge.twin ? edge.nodeIndex : edge.prev.twin.nodeIndex
IndexOf(tw, pv, ni, e) == IF tw[e] # 0 THEN ni[e] ELSE ni[tw[pv[e]]]

\* lines 154-180 over the cycle; min = -1 stands for Infinity
RECURSIVE ClosestInCycle(_, _, _, _, _, _)
ClosestInCycle(cyc, point, target, hasTarget, min, closest) ==
    IF cyc = << >> THEN closest
    ELSE LET e == Head(cyc)
             d == Score(vertex, e, point, target, hasTarget)
         IN  IF Eligible(twin, prev, e) /\ (min = -1 \/ d < min)
             THEN ClosestInCycle(Tail(cyc), point, target, hasTarget, d,
                                 IndexOf(twin, prev, nodeIndex, e))
             ELSE ClosestInCycle(Tail(cyc), point, target, hasTarget, min, closest)

\* getClosestNodeIndexInRegion( point, region, target )
GetClosestNodeIndexInRegion(point, region, target, hasTarget) ==
    ClosestInCycle(Cycle(next, edge[region]), point, target, hasTarget,
                   -1, NullIndex)

QueriesIdle == cn.op = "none" /\ fp.op = "none" /\ cm.op = "none"

\* a call of getClosestNodeIndexInRegion on a surviving region
CallClosestNodeIndexInRegion ==
    /\ pc = "done"
    /\ QueriesIdle
    /\ \E point \in Grid, target \in Grid, hasTarget \in BOOLEAN,
          k \in 1..Len(regions) :
          /\ (~hasTarget => target = << 0, 0 >>)
          /\ cn' = [ op |-> "getClosestNodeIndexInRegion", point |-> point,
                     region |-> regions[k], target |-> target,
                     hasTarget |-> hasTarget,
                     result |-> GetClosestNodeIndexInRegion(point, regions[k],
                                                            target, hasTarget) ]
    /\ UNCHANGED << mesh, vertex, next, prev, twin, polygon, nodeIndex, edge,
                    centroid, regions, sortedEdgeList, entryIdx, lastStep,
                    graphNodes, graphEdges, pc, fp, cm >>

(***************************************************************************)
(* findPath, lines 228-334.                                                *)
(***************************************************************************)
\* AStar( graph, source, target ): the routes a search may return, as
\* sequences of node indices from cur to target along navigation edges that
\* visit no node twice.  The shortest of them is the one the search returns;
\* the model lets findPath run on any of them.
RECURSIVE Routes(_, _, _, _, _)
Routes(nodes, edges, cur, target, visited) ==
    IF cur = target THEN { << cur >> }
    ELSE UNION { { << cur >> \o r : r \in Routes(nodes, edges, g.to, target,
                                                 visited \cup { g.to }) } :
                 g \in { h \in edges : h.from = cur /\ h.to \notin visited } }

AStarRoutes(nodes, edges, source, target) ==
    IF HasNode(nodes, source) /\ HasNode(nodes, target)
    THEN Routes(nodes, edges, source, target, { source })
    ELSE {}

\* Array.prototype.splice( 0, deleteCount ): what is left of the array
SpliceFront(s, deleteCount) ==
    LET dc == IF deleteCount < 0 THEN 0
              ELSE IF deleteCount > Len(s) THEN Len(s) ELSE deleteCount
    IN  SubSeq(s, dc + 1, Len(s))

\* lines 272-286 and 294-308: the first index (from 0) of the path whose node
\* position the region does not contain, or the path's length
FirstOutside(nodes, path, region) ==
    LET out == { i \in 1..Len(path) :
                   ~Contains(vertex, next, edge[region],
                             Hom(GetNode(nodes, path[i]).position)) }
    IN  IF out = {} THEN Len(path)
        ELSE (CHOOSE i \in out : \A k \in out : i <= k) - 1

\* a trim that drops the whole run of nodes inside the region
TrimWholeRun(nodes, path, region) ==
    SpliceFront(path, FirstOutside(nodes, path, region))

\* lines 272-288 and 294-310: shortestPath.splice( 0, count - 1 )
Trim(nodes, path, region) ==
    SpliceFront(path, FirstOutside(nodes, path, region) - 1)

\* lines 270-312: the smoothing of the raw path
Smooth(nodes, shortestPath, fromRegion, toRegion) ==
    LET headTrimmed == Trim(nodes, shortestPath, fromRegion)
    IN  Reverse(Trim(nodes, Reverse(headTrimmed), toRegion))

\* lines 317-326: the final path
FinalPath(nodes, from, kept, to) ==
    << from >> \o [ i \in 1..Len(kept) |-> GetNode(nodes, kept[i]).position ]
               \o << to >>

\* lines 232-244: the region of a point, the closest one if none contains it
ResolveRegion(point) ==
    IF GetRegionForPoint(Hom(point)) # 0 THEN GetRegionForPoint(Hom(point))
    ELSE GetClosestRegion(point)

CallFindPath ==
    /\ pc = "done"
    /\ QueriesIdle
    /\ \E from \in Grid, to \in Grid :
          LET fromRegion == ResolveRegion(from)
              toRegion == ResolveRegion(to)
              call == [ op |-> "findPath", from |-> from, to |-> to,
                        fromRegion |-> fromRegion, toRegion |-> toRegion,
                        found |-> FALSE, shortestPath |-> << >>, path |-> << >> ]
          IN  IF fromRegion = toRegion
              THEN fp' = [ call EXCEPT !.path = << from, to >> ]
              ELSE LET source == GetClosestNodeIndexInRegion(from, fromRegion, to, TRUE)
                       target == GetClosestNodeIndexInRegion(to, toRegion, from, TRUE)
                       routes == AStarRoutes(graphNodes, graphEdges, source, target)
                   IN  IF routes = {}
                       THEN fp' = call
                       ELSE \E shortestPath \in routes :
                               fp' = [ call EXCEPT
                                       !.found = TRUE,
                                       !.shortestPath = shortestPath,
                                       !.path = FinalPath(graphNodes, from,
                                                    Smooth(graphNodes, shortestPath,
                                                           fromRegion, toRegion), to) ]
    /\ UNCHANGED << mesh, vertex, next, prev, twin, polygon, nodeIndex, edge,
                    centroid, regions, sortedEdgeList, entryIdx, lastStep,
                    graphNodes, graphEdges, pc, cn, cm >>

(***************************************************************************)
(* clampMovement, lines 336-461.  The arithmetic is exact: a parameter t   *)
(* is a fraction <<num, den>>, a computed position a triple <<X, Z, W>>.   *)
(***************************************************************************)
\* LineSegment.closestPointToPointParameter( point ) on the segment a -> b,
\* for a point <<X, Z, W>>: the parameter of the projection of the point
Parameter(a, b, point) ==
    << (point[1] - a[1] * point[3]) * (b[1] - a[1])
       + (point[2] - a[2] * point[3]) * (b[2] - a[2]),
       point[3] * Dot(Sub(b, a), Sub(b, a)) >>

\* LineSegment.at( t ) on the segment a -> b
At(a, b, t) ==
    << a[1] * t[2] + (b[1] - a[1]) * t[1], a[2] * t[2] + (b[2] - a[2]) * t[1], t[2] >>

\* squaredDistanceTo from a position <<X, Z, W>> to an integer point, as a
\* fraction
SquaredDistanceH(c, point) == CentroidDistance(point, c)

\* lines 349-365: the edge of the cycle whose from() is closest to the point,
\* the first such edge on ties
RECURSIVE ClosestEdgeIn(_, _, _, _)
ClosestEdgeIn(vx, cyc, point, best) ==
    IF cyc = << >> THEN best
    ELSE IF best = 0
            \/ SquaredDistance(point, From(vx, Head(cyc)))
               < SquaredDistance(point, From(vx, best))
    THEN ClosestEdgeIn(vx, Tail(cyc), point, Head(cyc))
    ELSE ClosestEdgeIn(vx, Tail(cyc), point, best)

\* lines 369-417: the edge e to slide along and the parameter t on it;
\* e = 0 when no branch assigns them (they stay undefined)
SlideEdge(vx, nx, pv, tw, closestEdge, startPosition) ==
    LET t1 == Parameter(vx[pv[closestEdge]], vx[closestEdge], Hom(startPosition))
        t2 == Parameter(vx[closestEdge], vx[nx[closestEdge]], Hom(startPosition))
        d1 == SquaredDistanceH(At(vx[pv[closestEdge]], vx[closestEdge], t1),
                               startPosition)
        d2 == SquaredDistanceH(At(vx[closestEdge], vx[nx[closestEdge]], t2),
                               startPosition)
    IN  IF tw[closestEdge] # 0 /\ tw[pv[closestEdge]] = 0
        THEN [ e |-> pv[closestEdge], t |-> t1 ]
        ELSE IF tw[closestEdge] = 0 /\ tw[pv[closestEdge]] # 0
        THEN [ e |-> closestEdge, t |-> t2 ]
        ELSE IF tw[closestEdge] = 0 /\ tw[pv[closestEdge]] = 0
        THEN IF ~FracLess(d2, d1)
             THEN [ e |-> pv[closestEdge], t |-> t1 ]
             ELSE [ e |-> closestEdge, t |-> t2 ]
        ELSE [ e |-> 0, t |-> << 0, 1 >> ]

\* lines 421-430: newPosition = closestPoint + edgeDirection * ( f * length ),
\* with edgeDirection normalised and f * length its dot product with the
\* movement endPosition - startPosition
NewPosition(vx, nx, e, t, startPosition, endPosition) ==
    LET a == vx[e]
        d == Sub(vx[nx[e]], vx[e])
        len2 == Dot(d, d)
        along == Dot(d, Sub(endPosition, startPosition))
        w == t[2] * len2
        k == t[1] * len2 + along * t[2]
    IN  << a[1] * w + d[1] * k, a[2] * w + d[2] * k, w >>

\* lines 338-459
ClampMovement(currentRegion, startPosition, endPosition) ==
    LET call == [ op |-> "clampMovement", currentRegion |-> currentRegion,
                  startPosition |-> startPosition, endPosition |-> endPosition,
                  branch |-> "none", t |-> << 0, 1 >>,
                  newPosition |-> << 0, 0, 1 >>, clampPosition |-> << 0, 0, 1 >>,
                  returned |-> 0 ]
        nextRegion == GetRegionForPoint(Hom(endPosition))
        closestEdge == ClosestEdgeIn(vertex, Cycle(next, edge[currentRegion]),
                                     startPosition, 0)
        se == SlideEdge(vertex, next, prev, twin, closestEdge, startPosition)
        newPosition == NewPosition(vertex, next, se.e, se.t, startPosition,
                                   endPosition)
        t == Parameter(vertex[se.e], vertex[next[se.e]], newPosition)
    IN  IF nextRegion # 0
        THEN [ call EXCEPT !.branch = "inside", !.returned = nextRegion ]
        ELSE IF currentRegion = 0
        THEN \* line 342: throw new Error
             [ call EXCEPT !.branch = "Error" ]
        ELSE IF se.e = 0
        THEN \* line 421: e is undefined, e.next throws a TypeError
             [ call EXCEPT !.branch = "TypeError" ]
        ELSE IF startPosition = endPosition
        THEN \* length is 0 and the division by it yields NaN: every
             \* comparison with t fails and no region contains newPosition
             [ call EXCEPT !.branch = "start", !.clampPosition = Hom(startPosition),
                           !.returned = currentRegion ]
        ELSE IF t[1] >= 0 /\ t[1] <= t[2]
        THEN [ call EXCEPT !.branch = "slid", !.t = t, !.newPosition = newPosition,
                           !.clampPosition = newPosition,
                           !.returned = currentRegion ]
        ELSE IF GetRegionForPoint(newPosition) # 0
        THEN [ call EXCEPT !.branch = "region", !.t = t,
                           !.newPosition = newPosition,
                           !.clampPosition = newPosition,
                           !.returned = currentRegion ]
        ELSE [ call EXCEPT !.branch = "start", !.t = t, !.newPosition = newPosition,
                           !.clampPosition = Hom(startPosition),
                           !.returned = currentRegion ]

CallClampMovement ==
    /\ pc = "done"
    /\ QueriesIdle
    /\ \E startPosition \in Grid, endPosition \in Grid,
          currentRegion \in SeqRange(regions) \cup { 0 } :
          cm' = ClampMovement(currentRegion, startPosition, endPosition)
    /\ UNCHANGED << mesh, vertex, next, prev, twin, polygon, nodeIndex, edge,
                    centroid, regions, sortedEdgeList, entryIdx, lastStep,
                    graphNodes, graphEdges, pc, cn, fp >>

\* the caller takes the result of a query
Return ==
    /\ ~QueriesIdle
    /\ cn' = NoCn
    /\ fp' = NoFp
    /\ cm' = NoCm
    /\ UNCHANGED << mesh, vertex, next, prev, twin, polygon, nodeIndex, edge,
                    centroid, regions, sortedEdgeList, entryIdx, lastStep,
                    graphNodes, graphEdges, pc >>

Next ==
    \/ LinkTwinsAndSort
    \/ BuildRegionsStep
    \/ ComputeCentroids
    \/ BuildNodeIndices
    \/ BuildGraph
    \/ CallClosestNodeIndexInRegion
    \/ CallFindPath
    \/ CallClampMovement
    \/ Return

Spec == Init /\ [][Next]_vars

(***************************************************************************)
(* Properties.                                                             *)
(***************************************************************************)
\* fromPolygons has returned
Returned == pc = "done"

\* the half-edges on the boundary cycles of the surviving regions
RegionEdges == UNION { SeqRange(Cycle(next, edge[r])) : r \in SeqRange(regions) }

\* the input as it was handed in
InputFrom(e) == InitVertex(mesh)[e]
InputTo(e) == InitVertex(mesh)[InitNext(mesh)[e]]

TwinSymmetry ==
    /\ \A e \in DOMAIN twin : twin[e] # 0 => twin[twin[e]] = e
    /\ \A e1, e2 \in DOMAIN twin :
          (twin[e1] # 0 /\ twin[e1] = twin[e2]) => e1 = e2

\* no two half-edges of the input run from the same position to the same
\* position
DirectedSegmentsDistinct ==
    \A e1, e2 \in Edges(mesh) :
        (InputFrom(e1) = InputFrom(e2) /\ InputTo(e1) = InputTo(e2)) => e1 = e2

\* C1 as stated: after fromPolygons returns, for every input, e.twin.twin = e
\* for every half-edge with a twin, and no half-edge is the twin of two.
C1_TwinSymmetryEveryInput == Returned => TwinSymmetry

\* C1 amended: once the twins are linked (so also after fromPolygons returns),
\* twin symmetry holds for every input in which no two half-edges run from
\* the same position to the same position.
C1_TwinSymmetryDistinctSegments ==
    (pc # "new" /\ DirectedSegmentsDistinct) => TwinSymmetry

C1_Witness ==
    /\ Returned
    /\ DirectedSegmentsDistinct
    /\ \E e \in DOMAIN twin : twin[e] # 0 /\ twin[e] # e

RegionsConvex == \A r \in SeqRange(regions) : Convex(vertex, next, edge[r])

InputConvex ==
    \A p \in Polys(mesh) : Convex(InitVertex(mesh), InitNext(mesh), FirstEdge(mesh, p))

C3_SameIndexAnyEdges ==
    Returned =>
        \A e1, e2 \in RegionEdges :
            From(vertex, e1) = From(vertex, e2) => nodeIndex[e1] = nodeIndex[e2]

\* the half-edges _buildNodeIndices assigns an index to: those with a twin,
\* and the next edge of the twin of a twin-bearing edge of a surviving region
Indexed(e) ==
    \/ twin[e] # 0
    \/ \E x \in RegionEdges : twin[x] # 0 /\ next[twin[x]] = e

\* C3 amended: after fromPolygons returns, any two half-edges on surviving
\* region cycles with value-equal from(), each of which has a twin or is the
\* next edge of the twin of a twin-bearing edge of a surviving region, carry
\* the same nodeIndex.
C3_SameIndexIndexedEdges ==
    Returned =>
        \A e1, e2 \in { e \in RegionEdges : Indexed(e) } :
            From(vertex, e1) = From(vertex, e2) => nodeIndex[e1] = nodeIndex[e2]

C3_Witness ==
    /\ Returned
    /\ \E e1, e2 \in RegionEdges :
          /\ e1 # e2
          /\ From(vertex, e1) = From(vertex, e2)
          /\ twin[e1] # 0
          /\ twin[e2] = 0 /\ Indexed(e2)
          /\ nodeIndex[e1] = nodeIndex[e2]
          /\ nodeIndex[e1] # NoIndex

\* the node indices a region exposes: those of its twin-bearing boundary
\* edges and of their twins
Exposed(r) ==
    UNION { { nodeIndex[e], nodeIndex[twin[e]] } :
            e \in { x \in SeqRange(Cycle(next, edge[r])) : twin[x] # 0 } }

\* C4: after fromPolygons returns, for every surviving region and every
\* ordered pair (a, b) of distinct node indices it exposes, the graph holds
\* node a, node b and a navigation edge a -> b whose cost is the distance of
\* the two node positions (kept squared).
C4_FullConnectivity ==
    Returned =>
        \A r \in SeqRange(regions) : \A a, b \in Exposed(r) :
            a # b =>
                /\ \E n \in graphNodes : n.index = a
                /\ \E n \in graphNodes : n.index = b
                /\ \E g \in graphEdges :
                      /\ g.from = a /\ g.to = b
                      /\ \E na, nb \in graphNodes :
                            /\ na.index = a /\ nb.index = b
                            /\ g.cost2 = SquaredDistance(na.position, nb.position)

C4_Witness ==
    /\ Returned
    /\ \E r \in SeqRange(regions) : Cardinality(Exposed(r)) >= 3
    /\ \E g \in graphEdges : g.cost2 > 1

\* C5 as stated: a clampMovement call whose end point is in no region and
\* whose current region is known raises no error, returns the current
\* region and writes the slid position (its parameter within [0, 1], or the
\* position inside a region) or startPosition, whatever the twins of the
\* closest vertex's edge and of its predecessor.
C5_ClampAlwaysCompletes ==
    (cm.op = "clampMovement" /\ cm.currentRegion # 0
     /\ GetRegionForPoint(Hom(cm.endPosition)) = 0) =>
        /\ cm.branch \in { "slid", "region", "start" }
        /\ cm.returned = cm.currentRegion
        /\ \/ /\ cm.clampPosition = cm.newPosition
              /\ \/ (cm.t[1] >= 0 /\ cm.t[1] <= cm.t[2])
                 \/ GetRegionForPoint(cm.newPosition) # 0
           \/ cm.clampPosition = Hom(cm.startPosition)

\* three unit squares arranged as an L
LMeshes == { m \in 1..NumMeshes :
               /\ NP(m) = 3
               /\ \A p \in 1..3 : \E x, z \in 0..1 : Contours(m)[p] = Sq(x, z) }

\* C6 as stated: the L of three unit squares is left with exactly 3 regions
\* and at least 2 navigation nodes.
C6_LShapeThreeRegions ==
    (Returned /\ mesh \in LMeshes) =>
        (Len(regions) = 3 /\ Cardinality(graphNodes) >= 2)

\* C6 amended: the L of three unit squares is left with exactly 2 regions
\* (two of the squares merge into a rectangle) and at least 2 navigation
\* nodes.
C6_LShapeTwoRegions ==
    (Returned /\ mesh \in LMeshes) =>
        (Len(regions) = 2 /\ Cardinality(graphNodes) >= 2)

C6_Witness ==
    /\ Returned
    /\ mesh \in LMeshes
    /\ Len(sortedEdgeList) = 2

\* the step of _buildRegions that is being taken
StepCandidate == sortedEdgeList[entryIdx].edge
StepTaken(outcome) ==
    /\ pc = "regions"
    /\ entryIdx <= Len(sortedEdgeList)
    /\ entryIdx' = entryIdx + 1
    /\ lastStep'.outcome = outcome

\* C7: a step of _buildRegions whose spliced cycle fails the convexity test
\* leaves every next, prev and polygon reference and the regions set as they
\* were, and the candidate polygon's edge on that polygon's own old cycle.
C7_RollbackExact ==
    [][ StepTaken("rollback") =>
          /\ next' = next
          /\ prev' = prev
          /\ polygon' = polygon
          /\ regions' = regions
          /\ \A p \in DOMAIN edge :
                edge'[p] \in SeqRange(Cycle(next, edge[p]))
          /\ \A p \in DOMAIN edge :
                p # polygon[StepCandidate] => edge'[p] = edge[p] ]_vars

C7_Witness ==
    /\ lastStep.outcome = "rollback"
    /\ Len(regions) >= 2
    /\ edge[lastStep.survivor] = lastStep.candidate

\* C8 as stated: a step of _buildRegions whose spliced cycle passes the
\* convexity test keeps the surviving polygon in the regions set, removes
\* exactly the twin's polygon, and leaves every half-edge of the surviving
\* polygon's cycle pointing at it, for every candidate of the worklist.
C8_CommitKeepsSurvivor ==
    [][ StepTaken("commit") =>
          /\ polygon[StepCandidate] \in SeqRange(regions')
          /\ Len(regions') = Len(regions) - 1
          /\ SeqRange(regions') = SeqRange(regions) \ { polygon[twin[StepCandidate]] }
          /\ \A e \in SeqRange(Cycle(next', edge'[polygon[StepCandidate]])) :
                polygon'[e] = polygon[StepCandidate] ]_vars

\* C9's index k for a path and a region: the first place (from 0) whose node
\* position the region does not contain, the path's length if there is none
C9_K(path, region) ==
    IF \E i \in 1..Len(path) :
          ~Contains(vertex, next, edge[region],
                    Hom((CHOOSE n \in graphNodes : n.index = path[i]).position))
    THEN CHOOSE k \in 0..(Len(path) - 1) :
            /\ ~Contains(vertex, next, edge[region],
                         Hom((CHOOSE n \in graphNodes : n.index = path[k + 1]).position))
            /\ \A i \in 1..k :
                  Contains(vertex, next, edge[region],
                           Hom((CHOOSE n \in graphNodes : n.index = path[i]).position))
    ELSE Len(path)

C9_Max0(x) == IF x < 0 THEN 0 ELSE x

\* C9: when from and to resolve to different regions and the search succeeds
\* with raw path p[0..n-1], the result is [from] ++ positions of p[i..j] ++
\* [to], with i = max(0, k - 1) for fromRegion and j got by the same rule on
\* the reversed remainder for toRegion; the kept run is not empty, the
\* result has at least 3 waypoints, starts with from and ends with to.
C9_FindPathTrimming ==
    (fp.op = "findPath" /\ fp.fromRegion # fp.toRegion /\ fp.found) =>
        LET p == fp.shortestPath
            n == Len(p)
            i == C9_Max0(C9_K(p, fp.fromRegion) - 1)
            rest == SubSeq(p, i + 1, n)
            back == [ x \in 1..Len(rest) |-> rest[Len(rest) + 1 - x] ]
            j == n - 1 - C9_Max0(C9_K(back, fp.toRegion) - 1)
            kept == SubSeq(p, i + 1, j + 1)
        IN  /\ n >= 1
            /\ i <= j
            /\ Len(kept) >= 1
            /\ Len(fp.path) = Len(kept) + 2
            /\ Len(fp.path) >= 3
            /\ fp.path[1] = fp.from
            /\ fp.path[Len(fp.path)] = fp.to
            /\ \A x \in 1..Len(kept) :
                  fp.path[x + 1] = (CHOOSE nd \in graphNodes : nd.index = kept[x]).position

C9_Witness ==
    /\ fp.op = "findPath"
    /\ fp.found
    /\ fp.fromRegion # fp.toRegion
    /\ Len(fp.shortestPath) = 4
    /\ Len(fp.path) = 3

\* C10: after fromPolygons returns, getClosestNodeIndexInRegion on a surviving
\* region returns null only if no boundary edge has its own or its
\* predecessor's twin set; otherwise an index whose graph node lies at from()
\* of the eligible edge with the least score, the first such edge in cycle
\* order.
C10_ClosestNodeInRegion ==
    (Returned /\ cn.op = "getClosestNodeIndexInRegion") =>
        LET cyc == Cycle(next, edge[cn.region])
            score(i) == SquaredDistance(cn.point, vertex[cyc[i]])
                        + (IF cn.hasTarget
                           THEN SquaredDistance(cn.target, vertex[cyc[i]]) ELSE 0)
            elig == { i \in 1..Len(cyc) :
                        twin[cyc[i]] # 0 \/ twin[prev[cyc[i]]] # 0 }
        IN  IF elig = {}
            THEN cn.result = NullIndex
            ELSE LET best == CHOOSE i \in elig :
                                \A k \in elig :
                                    \/ score(i) < score(k)
                                    \/ (score(i) = score(k) /\ i <= k)
                 IN  /\ cn.result # NullIndex
                     /\ \E nd \in graphNodes :
                           /\ nd.index = cn.result
                           /\ nd.position = vertex[cyc[best]]

\* the index is read from the predecessor's twin: the closest eligible edge
\* has no twin of its own
C10_Witness ==
    /\ Returned
    /\ cn.op = "getClosestNodeIndexInRegion"
    /\ cn.hasTarget
    /\ cn.result # NullIndex
    /\ \E e \in SeqRange(Cycle(next, edge[cn.region])) :
          /\ twin[e] = 0 /\ twin[prev[e]] # 0
          /\ \E nd \in graphNodes : nd.index = cn.result /\ nd.position = vertex[e]


====
